---- MODULE Spec2Model ----
(***************************************************************************)
(* Model of the legal document processing pipeline:                        *)
(*   src/src/document_processor.py  DocumentProcessor.process_document     *)
(*   src/src/utils.py               convert_to_text                        *)
(*   src/src/classifier.py          DocumentClassifier                     *)
(*   src/src/legal_processor.py     LegalProcessor                         *)
(*                                                                         *)
(* Python strings are sequences of one-character strings, so that          *)
(* lower(), strip(), split(), find(), slicing and the citation regexes are *)
(* computed character by character.  Scores are fixed-point integers:      *)
(* a constituent score s stands for s/10 and a combined score c for c/100, *)
(* so 0.6*n + 0.4*t is the exact integer 6*n + 4*t.                        *)
(***************************************************************************)
EXTENDS Integers, Sequences, FiniteSets, TLC

VARIABLES
    pc,             \* position of the running call
    file,           \* the file behind file_path: does it exist, what libmagic says
    file_type,      \* process_document local: mime.from_file(file_path)
    text,           \* process_document local: the text handed to the later stages
    extracted,      \* what convert_to_text returned (before OCR overwrites text)
    metadata,       \* process_document local: MetadataExtractor.extract(text)
    zero_shot,      \* classify local: the zero-shot pipeline's answer
    tfidf,          \* classify local: _classify_with_tfidf's answer
    classification, \* process_document local: DocumentClassifier.classify(text)
    result,         \* the result dict (document_data of the legal processor)
    error,          \* the exception that ended the call, if any
    calls,          \* the collaborators invoked so far, in order
    sample_dir,     \* example.py: the sample directory and its listing
    iter,           \* example.py: entries sample_dir.iterdir() has yielded
    attempted,      \* example.py: the paths process_document was called on
    failed,         \* example.py: the paths whose processing raised
    engine,         \* a DocumentClassifier instance: its fitted model, categories
    classify_calls  \* the classify calls on that instance, each with its locals

\* the state of the batch driver (example.py)
batch_vars == <<sample_dir, iter, attempted, failed>>

\* the locals of DocumentProcessor.process_document
pipeline_vars == <<file, file_type, text, extracted, metadata, zero_shot,
                   tfidf, classification, result, calls>>

\* a DocumentClassifier shared by several classify calls
engine_vars == <<engine, classify_calls>>

vars == <<pc, error, pipeline_vars, batch_vars, engine_vars>>

(***************************************************************************)
(* Python values                                                           *)
(***************************************************************************)
\* a local that is not bound yet
Unbound == [unbound |-> TRUE]

\* Python's None where a str is expected (no string is this sequence: the
\* elements of a string are single characters)
None == <<"None">>

Range(s) == { s[i] : i \in 1..Len(s) }

\* s[a:b] with 1-based a and inclusive b; empty when b < a.
Slice(s, a, b) == IF b < a THEN << >> ELSE SubSeq(s, a, b)

Rep(c, n) == [i \in 1..n |-> c]

UPPER == <<"A","B","C","D","E","F","G","H","I","J","K","L","M",
           "N","O","P","Q","R","S","T","U","V","W","X","Y","Z">>
LOWER == <<"a","b","c","d","e","f","g","h","i","j","k","l","m",
           "n","o","p","q","r","s","t","u","v","w","x","y","z">>
DIGITS == {"0","1","2","3","4","5","6","7","8","9"}
UPPER_SET == { UPPER[i] : i \in 1..26 }
\* the regex class \w
WORD_CHARS ==
    DIGITS \cup UPPER_SET \cup { LOWER[i] : i \in 1..26 } \cup {"_"}
\* str.strip() and the regex class \s
WHITESPACE == {" ", "\t", "\n", "\r", "\f"}

\* str.lower(), one character
LowerChar(c) ==
    IF c \in UPPER_SET
    THEN LOWER[CHOOSE i \in 1..Len(UPPER) : UPPER[i] = c]
    ELSE c

\* str.lower()
Lower(s) == [i \in 1..Len(s) |-> LowerChar(s[i])]

\* str.strip(): drop leading and trailing whitespace
Strip(s) ==
    LET keep == { i \in 1..Len(s) : s[i] \notin WHITESPACE }
    IN  IF keep = {} THEN << >>
        ELSE LET first == CHOOSE i \in keep : \A j \in keep : i <= j
                 last  == CHOOSE i \in keep : \A j \in keep : j <= i
             IN  SubSeq(s, first, last)

\* does sub occur in s at position i (1-based)?
OccursAt(s, sub, i) ==
    /\ i >= 1
    /\ i + Len(sub) - 1 <= Len(s)
    /\ \A k \in 1..Len(sub) : s[i + k - 1] = sub[k]

\* str.find(sub, start): the first position >= start where sub occurs,
\* 0 when there is none (Python's -1, positions being 1-based here).
Find(s, sub, start) ==
    LET hits == { i \in start..(Len(s) - Len(sub) + 1) : OccursAt(s, sub, i) }
    IN  IF hits = {} THEN 0 ELSE CHOOSE i \in hits : \A j \in hits : i <= j

\* sub in s
Contains(s, sub) == Find(s, sub, 1) # 0

\* "\n".join(lines)
RECURSIVE Join(_)
Join(lines) ==
    IF lines = << >> THEN << >>
    ELSE IF Len(lines) = 1 THEN lines[1]
    ELSE lines[1] \o <<"\n">> \o Join(Tail(lines))

\* str.split("\n"): always at least one piece
RECURSIVE Split(_)
Split(s) ==
    LET nl == Find(s, <<"\n">>, 1)
    IN  IF nl = 0 THEN <<s>>
        ELSE <<Slice(s, 1, nl - 1)>> \o Split(Slice(s, nl + 1, Len(s)))

\* concatenation of a sequence of strings
RECURSIVE Concat(_)
Concat(parts) ==
    IF parts = << >> THEN << >> ELSE Head(parts) \o Concat(Tail(parts))

\* all sequences over S of length at most n
SeqsUpTo(S, n) == UNION { [1..k -> S] : k \in 0..n }

(***************************************************************************)
(* DocumentClassifier (src/src/classifier.py)                              *)
(***************************************************************************)
\* self.categories, in declaration order
categories == <<"legal", "financial", "technical", "medical",
                "contract", "report", "correspondence">>

\* dict.get(key, default)
Get(d, key, default) == IF key \in DOMAIN d THEN d[key] ELSE default

\* dict(zip(labels, scores)): zip stops at the shorter list, a repeated
\* label keeps its last score.
ZipDict(labels, scores) ==
    LET n == IF Len(labels) <= Len(scores) THEN Len(labels) ELSE Len(scores)
        last(l) == CHOOSE i \in 1..n :
                      /\ labels[i] = l
                      /\ \A j \in 1..n : labels[j] = l => j <= i
    IN  [l \in { labels[i] : i \in 1..n } |-> scores[last(l)]]

\* the two weights swapped
WeightedWrongWay(zero_shot_score, tfidf_score) ==
    4 * zero_shot_score + 6 * tfidf_score

\* 0.6 * zero_shot_score + 0.4 * tfidf_score, in hundredths
Weighted(zero_shot_score, tfidf_score) ==
    6 * zero_shot_score + 4 * tfidf_score

\* combined_scores: one (category, score) item per category, in the
\* insertion order of the loop over self.categories
combined_scores(zero_shot_scores, tfidf_scores) ==
    [i \in 1..Len(categories) |->
        <<categories[i],
          Weighted(Get(zero_shot_scores, categories[i], 0),
                   Get(tfidf_scores, categories[i], 0))>>]

\* an insertion step that puts item before the items of equal score
InsertUnstable(sorted, item) ==
    LET before == { i \in 1..Len(sorted) : sorted[i][2] > item[2] }
        k == Cardinality(before)
    IN  SubSeq(sorted, 1, k) \o <<item>> \o SubSeq(sorted, k + 1, Len(sorted))

\* One step of a stable descending sort: item goes after every item whose
\* score is at least its own.
InsertDesc(sorted, item) ==
    LET before == { i \in 1..Len(sorted) : sorted[i][2] >= item[2] }
        k == Cardinality(before)
    IN  SubSeq(sorted, 1, k) \o <<item>> \o SubSeq(sorted, k + 1, Len(sorted))

\* sorted(items, key=lambda x: x[1], reverse=True): Python's sort is stable,
\* also with reverse=True, so items of equal score keep their input order.
RECURSIVE SortedDesc(_)
SortedDesc(items) ==
    IF items = << >> THEN << >>
    ELSE InsertDesc(SortedDesc(SubSeq(items, 1, Len(items) - 1)),
                    items[Len(items)])

\* DocumentClassifier._combine_results
\* all_categories is dict(sorted_categories): the categories are distinct, so
\* the dict holds the sorted items in the same order.
_combine_results(zs, tf) ==
    LET zero_shot_scores  == ZipDict(zs.labels, zs.scores)
        sorted_categories == SortedDesc(combined_scores(zero_shot_scores, tf))
    IN  [primary_category |-> sorted_categories[1][1],
         confidence       |-> sorted_categories[1][2],
         all_categories   |-> sorted_categories]

\* the dict DocumentClassifier.classify returns
classify_result(zs, tf) ==
    LET combined_results == _combine_results(zs, tf)
    IN  [primary_category |-> combined_results.primary_category,
         confidence       |-> combined_results.confidence,
         all_categories   |-> combined_results.all_categories,
         method           |-> "combined"]

(***************************************************************************)
(* LegalProcessor (src/src/legal_processor.py)                             *)
(***************************************************************************)
\* an empty dict, the default of data.get(key, {})
EmptyDict == << >>

\* the string literals of the legal processor
S_contract     == <<"c","o","n","t","r","a","c","t">>
S_agreement    == <<"a","g","r","e","e","m","e","n","t">>
S_act          == <<"a","c","t">>
S_statute      == <<"s","t","a","t","u","t","e">>
S_judgment     == <<"j","u","d","g","m","e","n","t">>
S_ruling       == <<"r","u","l","i","n","g">>
S_jurisdiction == <<"j","u","r","i","s","d","i","c","t","i","o","n">>
S_governed_by  == <<"g","o","v","e","r","n","e","d"," ","b","y">>
S_laws_of      == <<"l","a","w","s"," ","o","f">>

\* classification.get('primary_category') == 'legal'
IsLegal(cls) ==
    /\ "primary_category" \in DOMAIN cls
    /\ cls.primary_category = "legal"

\* the same rules with agreement tested before contract
DocumentTypeAgreementFirst(data) ==
    IF IsLegal(Get(data, "classification", EmptyDict))
    THEN LET content == Lower(Get(data, "content", << >>))
         IN  IF Contains(content, S_agreement) THEN "agreement"
             ELSE IF Contains(content, S_contract) THEN "contract"
             ELSE IF Contains(content, S_act) \/ Contains(content, S_statute)
                  THEN "legislation"
             ELSE IF Contains(content, S_judgment) \/ Contains(content, S_ruling)
                  THEN "judicial_decision"
             ELSE "unknown"
    ELSE "unknown"

\* LegalProcessor._determine_legal_document_type
_determine_legal_document_type(data) ==
    IF IsLegal(Get(data, "classification", EmptyDict))
    THEN LET content == Lower(Get(data, "content", << >>))
         IN  IF Contains(content, S_contract) THEN "contract"
             ELSE IF Contains(content, S_agreement) THEN "agreement"
             ELSE IF Contains(content, S_act) \/ Contains(content, S_statute)
                  THEN "legislation"
             ELSE IF Contains(content, S_judgment) \/ Contains(content, S_ruling)
                  THEN "judicial_decision"
             ELSE "unknown"
    ELSE "unknown"

\* the entities dict of document_data, {} when a key is missing
Entities(data) == Get(Get(data, "metadata", EmptyDict), "entities", EmptyDict)

jurisdiction_indicators == <<S_jurisdiction, S_governed_by, S_laws_of>>

\* content[start_idx:end_idx].strip() for the indicator found at start_idx
JurisdictionSlice(content, indicator) ==
    LET start_idx == Find(content, indicator, 1)
        nl        == Find(content, <<"\n">>, start_idx)
        end_idx   == IF nl = 0 THEN Len(content) + 1 ELSE nl
    IN  Strip(Slice(content, start_idx, end_idx - 1))

\* LegalProcessor._extract_jurisdiction: the loop returns at the first
\* indicator, in list order, that occurs in the lower-cased content.
_extract_jurisdiction(data) ==
    LET locations == Get(Entities(data), "locations", << >>)
        content   == Lower(Get(data, "content", << >>))
        found     == { i \in 1..Len(jurisdiction_indicators) :
                          Contains(content, jurisdiction_indicators[i]) }
    IN  IF found # {}
        THEN LET first == CHOOSE i \in found : \A j \in found : i <= j
             IN  JurisdictionSlice(content, jurisdiction_indicators[first])
        ELSE IF locations # << >> THEN locations[1] ELSE None

\* LegalProcessor._extract_date
_extract_date(data) ==
    LET dates == Get(Entities(data), "dates", << >>)
    IN  IF dates # << >> THEN dates[1] ELSE None

\* entities.get('persons') with no default: None for a missing key
PartiesWithoutDefault(data) == Get(Entities(data), "persons", None)

\* LegalProcessor._extract_parties
_extract_parties(data) == Get(Entities(data), "persons", << >>)

\* The regex classes \d, \s and \w
IsDigit(c) == c \in DIGITS
IsSpace(c) == c \in WHITESPACE
IsWordChar(c) == c \in WORD_CHARS

\* \b before position i: exactly one of the characters at i-1 and i is a
\* word character (outside the string counts as a non-word character)
WordBoundary(s, i) ==
    LET isw(k) == k \in 1..Len(s) /\ IsWordChar(s[k])
    IN  isw(i - 1) # isw(i)

\* the literal parts of the four patterns: \d+\s+<literal>\s+\d+ between \b's
patterns == << <<"U",".","S",".","C",".">>,     \* US Code references
               <<"S","t","a","t",".">>,         \* Statute references
               <<"F",".">>,                     \* Federal references
               <<"U",".","K",".">> >>           \* UK references

\* the last position of the longest run of characters of the class that
\* starts at i (i - 1 when the character at i is not of the class)
RECURSIVE RunEnd(_, _, _)
RunEnd(s, i, class) ==
    IF i <= Len(s) /\ s[i] \in class THEN RunEnd(s, i + 1, class) ELSE i - 1

\* The end of the match of \b\d+\s+literal\s+\d+\b that starts at i, 0 when
\* there is none.  Each repeated class takes its longest run; giving
\* characters back never helps, as what follows a class in the pattern
\* never starts with a character of that class, and a shorter last number
\* would end before a digit, where there is no \b.
MatchEnd(s, literal, i) ==
    IF ~ (IsDigit(s[i]) /\ WordBoundary(s, i)) THEN 0 ELSE
    LET d1 == RunEnd(s, i, DIGITS)
        w1 == RunEnd(s, d1 + 1, WHITESPACE)
    IN  IF w1 = d1 \/ ~ OccursAt(s, literal, w1 + 1) THEN 0 ELSE
        LET l  == w1 + Len(literal)
            w2 == RunEnd(s, l + 1, WHITESPACE)
            e  == RunEnd(s, w2 + 1, DIGITS)
        IN  IF w2 = l \/ e = w2 \/ ~ WordBoundary(s, e + 1) THEN 0 ELSE e

\* re.findall(pattern, content) from position pos on: the leftmost match,
\* then the scan goes on after its end (matches do not overlap)
RECURSIVE FindAllFrom(_, _, _)
FindAllFrom(s, literal, pos) ==
    LET starts == { i \in pos..Len(s) : MatchEnd(s, literal, i) # 0 }
    IN  IF starts = {} THEN << >>
        ELSE LET i == CHOOSE a \in starts : \A b \in starts : a <= b
                 e == MatchEnd(s, literal, i)
             IN  <<SubSeq(s, i, e)>> \o FindAllFrom(s, literal, e + 1)

\* re.findall(pattern, content)
FindAll(s, literal) == FindAllFrom(s, literal, 1)

\* references after the loop over the patterns (references.extend(matches))
PooledReferences(content) ==
    Concat([p \in 1..Len(patterns) |-> FindAll(content, patterns[p])])

\* list(set(xs)): the distinct elements once each.  The order is the set's
\* iteration order, which depends on the string hashes of the run: every
\* order is possible.
ListOfSet(xs) ==
    LET S == Range(xs)
    IN  { l \in [1..Cardinality(S) -> S] : \A a \in S : \E i \in DOMAIN l : l[i] = a }

\* returning the pooled list as it is
ReferencesNotDeduplicated(data) ==
    { PooledReferences(Get(data, "content", << >>)) }

\* LegalProcessor._extract_references: the lists it can return
_extract_references(data) ==
    ListOfSet(PooledReferences(Get(data, "content", << >>)))

\* the loop of _split_into_sections without the flush after the last line
RECURSIVE SectionsLoopNoFlush(_, _, _)
SectionsLoopNoFlush(lines, sections, current_section) ==
    IF lines = << >> THEN sections
    ELSE LET line == Strip(Head(lines))
         IN  IF line = << >>
             THEN IF current_section # << >>
                  THEN SectionsLoopNoFlush(Tail(lines),
                           Append(sections, Join(current_section)), << >>)
                  ELSE SectionsLoopNoFlush(Tail(lines), sections, current_section)
             ELSE SectionsLoopNoFlush(Tail(lines), sections,
                                      Append(current_section, line))

\* the loop of _split_into_sections over the remaining lines, and the flush
\* of the last section after it
RECURSIVE SectionsLoop(_, _, _)
SectionsLoop(lines, sections, current_section) ==
    IF lines = << >>
    THEN IF current_section # << >>
         THEN Append(sections, Join(current_section))
         ELSE sections
    ELSE LET line == Strip(Head(lines))
         IN  IF line = << >>
             THEN IF current_section # << >>
                  THEN SectionsLoop(Tail(lines),
                           Append(sections, Join(current_section)), << >>)
                  ELSE SectionsLoop(Tail(lines), sections, current_section)
             ELSE SectionsLoop(Tail(lines), sections,
                               Append(current_section, line))

\* without the flush after the loop
SplitNoFlush(content) == SectionsLoopNoFlush(Split(content), << >>, << >>)

\* LegalProcessor._split_into_sections
_split_into_sections(content) == SectionsLoop(Split(content), << >>, << >>)

\* LegalProcessor.extract_legal_metadata, with the list _extract_references
\* returned
extract_legal_metadata(data, references) ==
    [document_type |-> _determine_legal_document_type(data),
     jurisdiction  |-> _extract_jurisdiction(data),
     date          |-> _extract_date(data),
     parties       |-> _extract_parties(data),
     references    |-> references]

\* str(confidence), kept apart from the number it was made from
Str(x) == [str |-> x]

\* the loop of _create_metadata with a test "if confidence:" around the
\* keyword: no keyword for a score of 0
MetadataSkipsZeroConfidence(data, uuid4, now) ==
    LET all_categories ==
            SelectSeq(Get(Get(data, "classification", EmptyDict),
                          "all_categories", << >>),
                      LAMBDA item : item[2] # 0)
    IN  [FRBRthis |-> uuid4,
         FRBRuri  |-> Get(Get(data, "file_info", EmptyDict), "path", ""),
         FRBRdate |-> now,
         classification |->
            [i \in 1..Len(all_categories) |->
                [keyword    |-> all_categories[i][1],
                 confidence |-> Str(all_categories[i][2])]]]

\* LegalProcessor._create_metadata: the akn:meta element
_create_metadata(data, uuid4, now) ==
    LET all_categories ==
            Get(Get(data, "classification", EmptyDict), "all_categories", << >>)
    IN  [FRBRthis |-> uuid4,
         FRBRuri  |-> Get(Get(data, "file_info", EmptyDict), "path", ""),
         FRBRdate |-> now,
         classification |->
            [i \in 1..Len(all_categories) |->
                [keyword    |-> all_categories[i][1],
                 confidence |-> Str(all_categories[i][2])]]]

\* LegalProcessor._create_body: the akn:section elements of akn:mainContent
_create_body(data) == _split_into_sections(Get(data, "content", << >>))

\* LegalProcessor.create_akoma_ntoso: the element tree that is serialised
create_akoma_ntoso(data, uuid4, now) ==
    [meta     |-> _create_metadata(data, uuid4, now),
     mainBody |-> _create_body(data)]

(***************************************************************************)
(* DocumentProcessor (src/src/document_processor.py), convert_to_text      *)
(* (src/src/utils.py)                                                      *)
(***************************************************************************)
\* media types as libmagic names them: major/minor
Mime(major, minor) == [major |-> major, minor |-> minor]
APPLICATION_PDF == Mime("application", "pdf")
TEXT_HTML       == Mime("text", "html")
APPLICATION_DOCX ==
    Mime("application", "vnd.openxmlformats-officedocument.wordprocessingml.document")
IMAGE_JPEG      == Mime("image", "jpeg")
IMAGE_PNG       == Mime("image", "png")

\* the branch of convert_to_text that also takes image/* files
ConverterAlsoForImages(mime_type) ==
    IF mime_type = APPLICATION_PDF THEN "_convert_pdf_to_text"
    ELSE IF mime_type = TEXT_HTML THEN "_convert_html_to_text"
    ELSE IF mime_type = APPLICATION_DOCX THEN "_convert_docx_to_text"
    ELSE IF mime_type.major \in {"text", "image"} THEN "_read_text_file"
    ELSE "ValueError"

\* convert_to_text: the converter the media type is dispatched to, or the
\* ValueError("Unsupported file type") of the last branch
Converter(mime_type) ==
    IF mime_type = APPLICATION_PDF THEN "_convert_pdf_to_text"
    ELSE IF mime_type = TEXT_HTML THEN "_convert_html_to_text"
    ELSE IF mime_type = APPLICATION_DOCX THEN "_convert_docx_to_text"
    ELSE IF mime_type.major = "text" THEN "_read_text_file"
    ELSE "ValueError"

\* the length under which _needs_ocr asks for OCR
OCR_MIN_LENGTH == 100

\* the media types _needs_ocr names
OCR_TYPES == {APPLICATION_PDF, IMAGE_JPEG, IMAGE_PNG}

\* DocumentProcessor._needs_ocr
_needs_ocr(ftype, txt) ==
    Len(Strip(txt)) < OCR_MIN_LENGTH /\ ftype \in OCR_TYPES

\* the existence test left out
ExistsUnchecked(f) == TRUE

\* os.path.exists(file_path)
Exists(f) == f.exists

\* the legal branch taken for the contract category
IsLegalOrContract(cls) ==
    /\ "primary_category" \in DOMAIN cls
    /\ cls.primary_category \in {"legal", "contract"}

\* the test of the legal branch of process_document
LegalBranch(cls) == IsLegal(cls)

(***************************************************************************)
(* Inputs of the pipeline: files, and what the collaborators answer        *)
(***************************************************************************)
MaxPad  == 1    \* whitespace before an extracted text
MaxUuid == 2    \* uuid.uuid4() values

\* os.path.getsize(file_path) and datetime.now().isoformat() values
FILE_SIZES == {2048}
TIMESTAMPS == {"2024-03-01T12:00:00"}

MIME_TYPES == {APPLICATION_PDF, TEXT_HTML, APPLICATION_DOCX,
               Mime("text", "plain"), Mime("text", "csv"),
               IMAGE_JPEG, IMAGE_PNG, Mime("application", "zip")}

PATHS == {"sample_documents/sample_1.pdf", "sample_documents/sample_2"}

Files ==
    [exists : {TRUE}, path : PATHS, mime : MIME_TYPES, size : FILE_SIZES]
    \cup [exists : {FALSE}, path : PATHS]

\* a short legal text: "Contract\n\nLaws of TX 1 F. 2"
LegalSample == <<"C","o","n","t","r","a","c","t","\n","\n","L","a","w","s"," ","o","f"," ","T","X"," ","1"," ","F","."," ","2">>

\* what a converter or the OCR can return: whitespace, then a short legal
\* text or none, then filler up to either side of the OCR threshold
PipelineTexts ==
    { Rep(" ", lead) \o body \o Rep("x", fill) :
        lead \in 0..MaxPad,
        body \in {<< >>, LegalSample},
        fill \in {0, OCR_MIN_LENGTH - 1, OCR_MIN_LENGTH} }

NoEntities ==
    [persons |-> << >>, organizations |-> << >>, dates |-> << >>,
     locations |-> << >>]

SomeEntities ==
    [persons       |-> << <<"J","o","h","n"," ","S","m","i","t","h">>, <<"A","n","n"," ","L","e","e">> >>,
     organizations |-> << >>,
     dates         |-> << <<"M","a","r","c","h"," ","1"," ","2","0","2","4">> >>,
     locations     |-> << <<"C","a","l","i","f","o","r","n","i","a">> >>]

\* MetadataExtractor.extract answers; of its keys (entities, key_phrases,
\* statistics, language, sentiment) only entities is read downstream
MetadataSamples == { [entities |-> NoEntities], [entities |-> SomeEntities] }

\* answers of the zero-shot pipeline for the seven candidate labels:
\* labels by descending score
ZeroShotSamples ==
    { [labels |-> <<"legal", "contract", "report", "financial",
                    "technical", "medical", "correspondence">>,
       scores |-> <<6, 2, 1, 1, 0, 0, 0>>],
      [labels |-> <<"contract", "legal", "report", "financial",
                    "technical", "medical", "correspondence">>,
       scores |-> <<5, 3, 1, 1, 0, 0, 0>>],
      [labels |-> <<"report", "financial", "legal", "contract",
                    "technical", "medical", "correspondence">>,
       scores |-> <<5, 3, 1, 1, 0, 0, 0>>] }

\* the even predict_proba answer
TfidfEven == [c \in Range(categories) |-> 1]

\* answers of predict_proba over classifier.classes_
TfidfSamples ==
    { [c \in Range(categories) |-> IF c = "legal" THEN 4 ELSE 1],
      [c \in Range(categories) |-> IF c = "report" THEN 4 ELSE 1] }

(***************************************************************************)
(* process_document, one action per stage                                  *)
(***************************************************************************)
Init ==
    /\ pc = "start"
    /\ file \in Files
    /\ file_type = Unbound
    /\ text = << >>
    /\ extracted = Unbound
    /\ metadata = Unbound
    /\ zero_shot = Unbound
    /\ tfidf = Unbound
    /\ classification = Unbound
    /\ result = Unbound
    /\ error = "none"
    /\ calls = << >>
    /\ engine = Unbound
    /\ classify_calls = << >>
    /\ sample_dir = Unbound
    /\ iter = 0
    /\ attempted = << >>
    /\ failed = {}

\* the failed stage tried again: the call stays where it is
RaiseAndRetry(e) ==
    /\ pc' = pc
    /\ error' = error

\* a raise that nothing in process_document catches: the call ends
Raise(e) ==
    /\ pc' = "raised"
    /\ error' = e

\* if not os.path.exists(file_path): raise FileNotFoundError
CheckExists ==
    /\ pc = "start"
    /\ IF Exists(file)
       THEN pc' = "from_file" /\ error' = error
       ELSE Raise("FileNotFoundError")
    /\ UNCHANGED <<engine_vars, batch_vars, file, file_type, text, extracted, metadata, zero_shot,
                   tfidf, classification, result, calls>>

\* file_type = mime.from_file(file_path); from_file opens the file first, so
\* a missing file raises there
DetectType ==
    /\ pc = "from_file"
    /\ calls' = Append(calls, "magic.from_file")
    /\ IF file.exists
       THEN /\ file_type' = file.mime
            /\ pc' = "convert_to_text"
            /\ error' = error
       ELSE /\ Raise("FileNotFoundError")
            /\ file_type' = file_type
    /\ UNCHANGED <<engine_vars, batch_vars, file, text, extracted, metadata, zero_shot, tfidf,
                   classification, result>>

\* text = convert_to_text(file_path, file_type): the text of the converter
\* the type is dispatched to, the converter's own exception, or the
\* ValueError for a type no branch takes
ConvertToText ==
    /\ pc = "convert_to_text"
    /\ calls' = Append(calls, "convert_to_text")
    /\ IF Converter(file_type) = "ValueError"
       THEN /\ Raise("ValueError")
            /\ UNCHANGED <<text, extracted>>
       ELSE \/ \E t \in PipelineTexts :
                 /\ text' = t
                 /\ extracted' = [val |-> t]
                 /\ pc' = "_needs_ocr"
                 /\ error' = error
            \/ /\ Raise("ConverterError")
               /\ UNCHANGED <<text, extracted>>
    /\ UNCHANGED <<engine_vars, batch_vars, file, file_type, metadata, zero_shot, tfidf,
                   classification, result>>

\* if self._needs_ocr(file_type, text):
\*     text = self.ocr_processor.process_image(file_path)
OcrFallback ==
    /\ pc = "_needs_ocr"
    /\ _needs_ocr(file_type, text)
    /\ calls' = Append(calls, "ocr_processor.process_image")
    /\ \/ \E t \in PipelineTexts :
            /\ text' = t
            /\ pc' = "extract"
            /\ error' = error
       \/ /\ Raise("OcrError")
          /\ text' = text
    /\ UNCHANGED <<engine_vars, batch_vars, file, file_type, extracted, metadata, zero_shot, tfidf,
                   classification, result>>

\* _needs_ocr is false: the extracted text is kept
SkipOcr ==
    /\ pc = "_needs_ocr"
    /\ ~ _needs_ocr(file_type, text)
    /\ pc' = "extract"
    /\ UNCHANGED <<engine_vars, batch_vars, file, file_type, text, extracted, metadata, zero_shot,
                   tfidf, classification, result, error, calls>>

\* metadata = self.metadata_extractor.extract(text)
ExtractMetadata ==
    /\ pc = "extract"
    /\ calls' = Append(calls, "metadata_extractor.extract")
    /\ \/ \E m \in MetadataSamples :
            /\ metadata' = m
            /\ pc' = "zero_shot"
            /\ error' = error
       \/ /\ Raise("MetadataError")
          /\ metadata' = metadata
    /\ UNCHANGED <<engine_vars, batch_vars, file, file_type, text, extracted, zero_shot, tfidf,
                   classification, result>>

\* classification = self.classifier.classify(text), its first statement:
\* zero_shot_results = self.zero_shot(text, self.categories)
ZeroShot ==
    /\ pc = "zero_shot"
    /\ calls' = calls \o <<"classifier.classify", "zero_shot">>
    /\ \/ \E z \in ZeroShotSamples :
            /\ zero_shot' = z
            /\ pc' = "_classify_with_tfidf"
            /\ error' = error
       \/ /\ Raise("ZeroShotError")
          /\ zero_shot' = zero_shot
    /\ UNCHANGED <<engine_vars, batch_vars, file, file_type, text, extracted, metadata, tfidf,
                   classification, result>>

\* tfidf_results = self._classify_with_tfidf(text)
ClassifyWithTfidf ==
    /\ pc = "_classify_with_tfidf"
    /\ calls' = Append(calls, "_classify_with_tfidf")
    /\ \/ \E t \in TfidfSamples :
            /\ tfidf' = t
            /\ pc' = "_combine_results"
            /\ error' = error
       \/ /\ Raise("TfidfError")
          /\ tfidf' = tfidf
    /\ UNCHANGED <<engine_vars, batch_vars, file, file_type, text, extracted, metadata, zero_shot,
                   classification, result>>

\* combined_results = self._combine_results(zero_shot_results, tfidf_results)
\* and the return of classify
CombineResults ==
    /\ pc = "_combine_results"
    /\ classification' = classify_result(zero_shot, tfidf)
    /\ pc' = "result"
    /\ UNCHANGED <<engine_vars, batch_vars, file, file_type, text, extracted, metadata, zero_shot,
                   tfidf, result, error, calls>>

\* result = {...}, then the test of the legal branch; without it the
\* result is returned
BuildResult ==
    /\ pc = "result"
    /\ calls' = Append(calls, "os.path.getsize")
    /\ result' = [file_info      |-> [path |-> file.path, type |-> file_type,
                                      size |-> file.size],
                  metadata       |-> metadata,
                  classification |-> classification,
                  content        |-> text]
    /\ pc' = IF LegalBranch(classification)
             THEN "extract_legal_metadata" ELSE "returned"
    /\ UNCHANGED <<engine_vars, batch_vars, file, file_type, text, extracted, metadata, zero_shot,
                   tfidf, classification, error>>

\* result['legal_metadata'] = self.legal_processor.extract_legal_metadata(result)
ExtractLegalMetadata ==
    /\ pc = "extract_legal_metadata"
    /\ calls' = Append(calls, "legal_processor.extract_legal_metadata")
    /\ \E references \in _extract_references(result) :
          result' = [legal_metadata |-> extract_legal_metadata(result, references)]
                    @@ result
    /\ pc' = "create_akoma_ntoso"
    /\ UNCHANGED <<engine_vars, batch_vars, file, file_type, text, extracted, metadata, zero_shot,
                   tfidf, classification, error>>

\* result['akoma_ntoso'] = self.legal_processor.create_akoma_ntoso(result)
\* and return result
CreateAkomaNtoso ==
    /\ pc = "create_akoma_ntoso"
    /\ calls' = Append(calls, "legal_processor.create_akoma_ntoso")
    /\ \E uuid4 \in 1..MaxUuid, now \in TIMESTAMPS :
          result' = [akoma_ntoso |-> create_akoma_ntoso(result, uuid4, now)]
                    @@ result
    /\ pc' = "returned"
    /\ UNCHANGED <<engine_vars, batch_vars, file, file_type, text, extracted, metadata, zero_shot,
                   tfidf, classification, error>>

Next ==
    \/ CheckExists
    \/ DetectType
    \/ ConvertToText
    \/ OcrFallback
    \/ SkipOcr
    \/ ExtractMetadata
    \/ ZeroShot
    \/ ClassifyWithTfidf
    \/ CombineResults
    \/ BuildResult
    \/ ExtractLegalMetadata
    \/ CreateAkomaNtoso

Spec == Init /\ [][Next]_vars

(***************************************************************************)
(* _combine_results on its own: every pair of constituent answers          *)
(***************************************************************************)
MaxZeroShotLabels == 2   \* labels in a zero-shot answer
MaxTfidfLabels    == 1   \* labels in a tf-idf answer

\* a label outside the vocabulary, as a constituent may return
LABEL_ORDER == categories \o <<"other">>

\* constituent scores, in tenths; 6*2 = 4*3 lets the two signals tie
SCORE_SAMPLES == {0, 2, 3}

\* the score mappings over at most k of the labels L
ScoreMaps(L, k) ==
    UNION { [S -> SCORE_SAMPLES] : S \in { T \in SUBSET L : Cardinality(T) <= k } }

\* a zero-shot answer holding the mapping m: parallel lists, the labels by
\* descending score as the pipeline returns them
ZeroShotAnswer(m) ==
    LET present == SelectSeq(LABEL_ORDER, LAMBDA l : l \in DOMAIN m)
        items   == SortedDesc([i \in 1..Len(present) |-> <<present[i], m[present[i]]>>])
    IN  [labels |-> [i \in 1..Len(items) |-> items[i][1]],
         scores |-> [i \in 1..Len(items) |-> items[i][2]]]

ZeroShotInputs ==
    { ZeroShotAnswer(m) : m \in ScoreMaps(Range(LABEL_ORDER), MaxZeroShotLabels) }

\* classifier.classes_ are training labels, all in the vocabulary
TfidfInputs == ScoreMaps(Range(categories), MaxTfidfLabels)

InitClassify ==
    /\ pc = "_combine_results"
    /\ zero_shot \in ZeroShotInputs
    /\ tfidf \in TfidfInputs
    /\ file = Unbound
    /\ file_type = Unbound
    /\ text = << >>
    /\ extracted = Unbound
    /\ metadata = Unbound
    /\ classification = Unbound
    /\ result = Unbound
    /\ error = "none"
    /\ calls = << >>
    /\ engine = Unbound
    /\ classify_calls = << >>
    /\ sample_dir = Unbound
    /\ iter = 0
    /\ attempted = << >>
    /\ failed = {}

NextClassify == CombineResults

SpecClassify == InitClassify /\ [][NextClassify]_vars

(***************************************************************************)
(* The legal processor on its own: every document_data over small texts    *)
(***************************************************************************)
MaxTypeChunks         == 2   \* pieces of a text of document-type keywords
MaxJurisdictionChunks == 3   \* pieces of a text of jurisdiction phrases
MaxReferenceChunks    == 3   \* pieces of a text of citations
MaxSectionChunks      == 5   \* pieces of a text of lines and blanks

TextsOf(chunks, n) == { Concat(parts) : parts \in SeqsUpTo(chunks, n) }

TypeChunks ==
    { <<"c","o","n","t","r","a","c","t">>,
      <<"A","g","r","e","e","m","e","n","t">>,
      <<"a","c","t">>,
      <<"S","T","A","T","U","T","E">>,
      <<"j","u","d","g","m","e","n","t">>,
      <<"R","u","l","i","n","g">>,
      <<"x">> }

JurisdictionChunks ==
    { <<"J","u","r","i","s","d","i","c","t","i","o","n">>,
      <<"g","o","v","e","r","n","e","d"," ","b","y">>,
      <<"L","a","w","s"," ","o","f">>,
      <<" ","T","X"," ">>,
      <<"\n">> }

ReferenceChunks ==
    { <<"1"," ","F","."," ","2"," ">>,
      <<"3"," ","S","t","a","t","."," ","4"," ">>,
      <<"5"," "," ","U",".","S",".","C",".","\n","6">>,
      <<"7"," ","U",".","K","."," ","8">>,
      <<"x">> }

SectionChunks ==
    { <<"A">>,
      <<"\n">>,
      <<" ">> }

\* "A\nB\n\nC"
SectionExample == <<"A","\n","B","\n","\n","C">>

TypeTexts         == TextsOf(TypeChunks, MaxTypeChunks)
JurisdictionTexts == TextsOf(JurisdictionChunks, MaxJurisdictionChunks)
ReferenceTexts    == TextsOf(ReferenceChunks, MaxReferenceChunks)
SectionTexts      == TextsOf(SectionChunks, MaxSectionChunks) \cup {SectionExample}

LegalTexts == TypeTexts \cup JurisdictionTexts \cup ReferenceTexts \cup SectionTexts

\* a legal and a non-legal classification, as classify returns them
ClassificationSamples ==
    { classify_result(z, TfidfEven) : z \in ZeroShotSamples }

\* the result dict process_document hands to the legal processor
DocumentData(e, c, t) ==
    [file_info      |-> [path |-> "sample_documents/sample_1.pdf",
                         type |-> APPLICATION_PDF, size |-> 2048],
     metadata       |-> [entities |-> e],
     classification |-> c,
     content        |-> t]

\* every text as a legal document with entities; the texts of phrases also
\* without entities, the texts of keywords also as documents of another
\* category
LegalInputs ==
    { DocumentData(SomeEntities, c, t) :
        c \in { k \in ClassificationSamples : IsLegal(k) }, t \in LegalTexts }
    \cup { DocumentData(NoEntities, c, t) :
             c \in { k \in ClassificationSamples : IsLegal(k) },
             t \in JurisdictionTexts }
    \cup { DocumentData(NoEntities, c, t) :
             c \in { k \in ClassificationSamples : ~ IsLegal(k) },
             t \in TypeTexts }

InitLegal ==
    /\ pc = "extract_legal_metadata"
    /\ result \in LegalInputs
    /\ file = Unbound
    /\ file_type = Unbound
    /\ text = << >>
    /\ extracted = Unbound
    /\ metadata = Unbound
    /\ zero_shot = Unbound
    /\ tfidf = Unbound
    /\ classification = Unbound
    /\ error = "none"
    /\ calls = << >>
    /\ engine = Unbound
    /\ classify_calls = << >>
    /\ sample_dir = Unbound
    /\ iter = 0
    /\ attempted = << >>
    /\ failed = {}

NextLegal ==
    \/ ExtractLegalMetadata
    \/ CreateAkomaNtoso

SpecLegal == InitLegal /\ [][NextLegal]_vars

(***************************************************************************)
(* Properties                                                              *)
(***************************************************************************)
Called(name) == \E i \in 1..Len(calls) : calls[i] = name

LEGAL_CALLS == {"legal_processor.extract_legal_metadata",
                "legal_processor.create_akoma_ntoso"}

LATER_STAGES == {"ocr_processor.process_image", "metadata_extractor.extract",
                 "classifier.classify", "zero_shot", "_classify_with_tfidf"}
                \cup LEGAL_CALLS

\* C1: a result that process_document returns holds the keys legal_metadata
\* and akoma_ntoso exactly when classification.primary_category is "legal"
\* (both or neither), and extract_legal_metadata and create_akoma_ntoso are
\* invoked only for a legal classification: both for a returned legal
\* result, neither otherwise.
C1_LegalKeysIffLegal ==
    /\ pc = "returned" =>
          /\ result.classification = classification
          /\ ("legal_metadata" \in DOMAIN result)
                <=> (classification.primary_category = "legal")
          /\ ("akoma_ntoso" \in DOMAIN result)
                <=> (classification.primary_category = "legal")
          /\ \A c \in LEGAL_CALLS :
                Called(c) <=> (classification.primary_category = "legal")
    /\ \A c \in LEGAL_CALLS :
          Called(c) => /\ classification # Unbound
                       /\ classification.primary_category = "legal"

\* a legal document was returned with both keys
C1_Witness ==
    /\ pc = "returned"
    /\ classification.primary_category = "legal"
    /\ {"legal_metadata", "akoma_ntoso"} \subseteq DOMAIN result

\* C2 (as claimed): for application/pdf, image/jpeg and image/png, OCR is
\* invoked whenever text extraction yielded fewer than 100 characters (a
\* file no text was extracted from yielded none); for any other media type,
\* or when 100 or more characters were extracted, OCR is never invoked.
\* Stated of every call that got past text extraction and the OCR decision
\* without a converter failing on the file.
C2_OcrExactlyWhenShort ==
    LET yielded == IF extracted = Unbound THEN 0 ELSE Len(extracted.val)
        settled == /\ pc \notin {"start", "from_file", "convert_to_text", "_needs_ocr"}
                   /\ file.exists
                   /\ error # "ConverterError"
    IN  settled =>
           (Called("ocr_processor.process_image")
              <=> (file_type \in OCR_TYPES /\ yielded < OCR_MIN_LENGTH))

\* C3: process_document on a path that does not exist fails with
\* FileNotFoundError before any collaborator is invoked: nothing is
\* detected, extracted, recognised, classified or structured, and no result
\* is returned.
C3_MissingFileFailsFirst ==
    ~ file.exists =>
        /\ pc \in {"start", "raised"}
        /\ pc = "raised" => error = "FileNotFoundError"
        /\ calls = << >>
        /\ file_type = Unbound
        /\ extracted = Unbound
        /\ text = << >>
        /\ metadata = Unbound
        /\ classification = Unbound
        /\ result = Unbound

\* the call on a missing file has failed
C3_Witness ==
    /\ ~ file.exists
    /\ pc = "raised"
    /\ error = "FileNotFoundError"

\* the media types the claim lists: PDF, HTML, DOCX and text/*
SupportedByClaim(m) ==
    \/ m \in {APPLICATION_PDF, TEXT_HTML, APPLICATION_DOCX}
    \/ m.major = "text"

\* C4: convert_to_text returns a text only for PDF, HTML, DOCX and text/*
\* media types; for any other type it fails with the unsupported-type
\* ValueError, process_document returns no result and no later stage (OCR,
\* entity extraction, classification, legal structuring) is invoked.
C4_UnsupportedTypeFails ==
    /\ extracted # Unbound => SupportedByClaim(file_type)
    /\ (file_type # Unbound /\ ~ SupportedByClaim(file_type)
            /\ pc # "convert_to_text") =>
          /\ pc = "raised"
          /\ error = "ValueError"
          /\ result = Unbound
          /\ \A c \in LATER_STAGES : ~ Called(c)

\* an image went into convert_to_text and the call failed there
C4_Witness ==
    /\ pc = "raised"
    /\ error = "ValueError"
    /\ file_type = IMAGE_PNG
    /\ Called("convert_to_text")

\* the score the zero-shot answer gives label c, 0 when it has none
ZeroShotScoreOf(c) ==
    IF \E i \in 1..Len(zero_shot.labels) : zero_shot.labels[i] = c
    THEN zero_shot.scores[CHOOSE i \in 1..Len(zero_shot.labels) : zero_shot.labels[i] = c]
    ELSE 0

\* the score the tf-idf answer gives label c, 0 when it has none
TfidfScoreOf(c) == IF c \in DOMAIN tfidf THEN tfidf[c] ELSE 0

\* the combined score of label c in the classification
CombinedScoreOf(c) ==
    LET all == classification.all_categories
    IN  all[CHOOSE i \in 1..Len(all) : all[i][1] = c][2]

\* the position of label c in the vocabulary
Declared(c) == CHOOSE i \in 1..Len(categories) : categories[i] = c

\* C5: for every pair of constituent answers and every label of the
\* seven-label vocabulary, the combined score is 0.6 * the zero-shot score
\* + 0.4 * the tf-idf score (in hundredths: 6*z + 4*t), a label a
\* constituent does not return counting 0 for it; each label has exactly
\* one combined score and nothing is renormalised.
C5_WeightedFusion ==
    classification # Unbound =>
        LET all == classification.all_categories
        IN  /\ Len(all) = Len(categories)
            /\ \A c \in Range(categories) :
                  /\ Cardinality({ i \in 1..Len(all) : all[i][1] = c }) = 1
                  /\ CombinedScoreOf(c) = 6 * ZeroShotScoreOf(c) + 4 * TfidfScoreOf(c)

RECURSIVE SumScores(_)
SumScores(items) ==
    IF items = << >> THEN 0 ELSE Head(items)[2] + SumScores(Tail(items))

\* a label only the tf-idf answer holds and one only the zero-shot answer
\* holds were combined, and the combined scores do not sum to 1 (100)
C5_Witness ==
    /\ classification # Unbound
    /\ \E c \in Range(categories) :
          /\ c \in DOMAIN tfidf /\ tfidf[c] > 0
          /\ ZeroShotScoreOf(c) = 0
    /\ \E c \in Range(categories) :
          /\ c \notin DOMAIN tfidf
          /\ ZeroShotScoreOf(c) > 0
    /\ SumScores(classification.all_categories) # 100

\* C6: primary_category is a label of maximal combined score, confidence is
\* that label's combined score, and among the labels that tie for the
\* maximum primary_category is the one declared first in the vocabulary.
C6_PrimaryIsFirstArgmax ==
    classification # Unbound =>
        LET p == classification.primary_category
        IN  /\ p \in Range(categories)
            /\ classification.confidence = CombinedScoreOf(p)
            /\ \A c \in Range(categories) :
                  /\ CombinedScoreOf(c) <= CombinedScoreOf(p)
                  /\ CombinedScoreOf(c) = CombinedScoreOf(p)
                        => Declared(p) <= Declared(c)

\* two labels tie for a positive maximum, one by its zero-shot score and
\* one by its tf-idf score, and the earlier declared one is primary
C6_Witness ==
    /\ classification # Unbound
    /\ classification.confidence > 0
    /\ \E c \in Range(categories) :
          /\ classification.primary_category # categories[1]
          /\ c # classification.primary_category
          /\ CombinedScoreOf(c) = classification.confidence
          /\ ZeroShotScoreOf(c) # ZeroShotScoreOf(classification.primary_category)

\* the keyword occurs in the text, whatever the case of the text's letters
OccursIgnoringCase(txt, keyword) ==
    \E i \in 1..Len(txt) :
        /\ i + Len(keyword) - 1 <= Len(txt)
        /\ \A k \in 1..Len(keyword) : LowerChar(txt[i + k - 1]) = keyword[k]

\* the position of the first occurrence, whatever the case
FirstIgnoringCase(txt, keyword) ==
    CHOOSE i \in 1..Len(txt) :
        /\ OccursAt(Lower(txt), keyword, i)
        /\ \A j \in 1..(i - 1) : ~ OccursAt(Lower(txt), keyword, j)

\* C7: for a document whose primary_category is "legal", document_type is
\* the first rule that matches, in the order contract, agreement, act or
\* statute (legislation), judgment or ruling (judicial_decision), else
\* unknown, by case-insensitive substring search and wherever the keywords
\* stand in the text; a text with both "contract" and "agreement" gives
\* "contract".
C7_DocumentTypePrecedence ==
    ("legal_metadata" \in DOMAIN result /\ IsLegal(result.classification)) =>
        LET has(k) == OccursIgnoringCase(result.content, k)
            dt     == result.legal_metadata.document_type
        IN  /\ has(S_contract) => dt = "contract"
            /\ (~ has(S_contract) /\ has(S_agreement)) => dt = "agreement"
            /\ (~ has(S_contract) /\ ~ has(S_agreement)
                  /\ (has(S_act) \/ has(S_statute))) => dt = "legislation"
            /\ (~ has(S_contract) /\ ~ has(S_agreement)
                  /\ ~ has(S_act) /\ ~ has(S_statute)
                  /\ (has(S_judgment) \/ has(S_ruling))) => dt = "judicial_decision"
            /\ (~ has(S_contract) /\ ~ has(S_agreement)
                  /\ ~ has(S_act) /\ ~ has(S_statute)
                  /\ ~ has(S_judgment) /\ ~ has(S_ruling)) => dt = "unknown"

\* a legal text where "agreement" stands before "contract" got the type
\* contract
C7_Witness ==
    /\ "legal_metadata" \in DOMAIN result
    /\ IsLegal(result.classification)
    /\ OccursIgnoringCase(result.content, S_contract)
    /\ OccursIgnoringCase(result.content, S_agreement)
    /\ FirstIgnoringCase(result.content, S_agreement)
          < FirstIgnoringCase(result.content, S_contract)
    /\ result.legal_metadata.document_type = "contract"

\* C8 (as claimed): the jurisdiction is, for the first of the phrases
\* jurisdiction, governed by, laws of (in that order, not in text order)
\* that occurs case-insensitively, the slice of the extracted text from the
\* phrase's first occurrence to the next line break (to the end without
\* one), trimmed; without any phrase it is the first location entity, and
\* None without a location.
C8_JurisdictionIsSliceOfText ==
    "legal_metadata" \in DOMAIN result =>
        LET content == result.content
            has(k)  == OccursIgnoringCase(content, k)
            slice(k) ==
                LET start == FirstIgnoringCase(content, k)
                    rest  == { j \in start..Len(content) : content[j] = "\n" }
                    stop  == IF rest = {} THEN Len(content) + 1
                             ELSE CHOOSE j \in rest : \A l \in rest : j <= l
                IN  Strip(Slice(content, start, stop - 1))
            locations == result.metadata.entities.locations
            j == result.legal_metadata.jurisdiction
        IN  IF has(S_jurisdiction) THEN j = slice(S_jurisdiction)
            ELSE IF has(S_governed_by) THEN j = slice(S_governed_by)
            ELSE IF has(S_laws_of) THEN j = slice(S_laws_of)
            ELSE IF locations # << >> THEN j = locations[1]
            ELSE j = None

\* the citations the pattern with the given literal matches in txt
MatchesOf(txt, literal) == Range(FindAll(txt, literal))

\* C9: the references are the matches of the four citation patterns over
\* the whole text, pooled, each matched string exactly once and nothing
\* else.  The order of the list is not fixed, and whatever list a run
\* returns holds this same set: two runs on the same input agree as sets.
C9_ReferencesDeduplicated ==
    "legal_metadata" \in DOMAIN result =>
        LET refs    == result.legal_metadata.references
            matched == UNION { MatchesOf(result.content, patterns[p]) :
                                 p \in 1..Len(patterns) }
        IN  /\ Range(refs) = matched
            /\ \A m \in matched :
                  Cardinality({ i \in 1..Len(refs) : refs[i] = m }) = 1

\* a text that cites one reference twice and another once, returned with
\* the later cited first
C9_Witness ==
    /\ "legal_metadata" \in DOMAIN result
    /\ LET refs   == result.legal_metadata.references
           pooled == PooledReferences(result.content)
       IN  /\ Len(refs) = 2
           /\ Len(pooled) = 3
           /\ refs[1] # pooled[1]

\* the maximal runs of consecutive non-blank lines of txt, in order, each
\* as its lines joined by line breaks, the lines as they are or trimmed
RunsOf(txt, trimmed) ==
    LET lines    == Split(txt)
        n        == Len(lines)
        blank(i) == Strip(lines[i]) = << >>
        starts   == { i \in 1..n : ~ blank(i) /\ (i = 1 \/ blank(i - 1)) }
        start(k) == CHOOSE i \in starts :
                       Cardinality({ j \in starts : j < i }) = k - 1
        end(a)   == CHOOSE b \in a..n :
                       /\ \A j \in a..b : ~ blank(j)
                       /\ (b = n \/ blank(b + 1))
    IN  [k \in 1..Cardinality(starts) |->
            Join([j \in 1..(end(start(k)) - start(k) + 1) |->
                     IF trimmed THEN Strip(lines[start(k) + j - 1])
                     ELSE lines[start(k) + j - 1]])]

\* C10 (as claimed): the sections are the maximal runs of consecutive
\* non-blank lines, each exactly its lines joined by line breaks, in the
\* original order; the body block holds one section element per section in
\* that order.
C10_SectionsAreRunsOfLines ==
    "akoma_ntoso" \in DOMAIN result =>
        result.akoma_ntoso.mainBody = RunsOf(result.content, FALSE)

\* C10 (amended): the sections are the maximal runs of consecutive
\* non-blank lines (a line of whitespace only is blank), each as its lines,
\* trimmed of leading and trailing whitespace, joined by line breaks, in
\* the original order; no section is empty, blank lines are in none, a
\* blank or empty text has no section, "A\nB\n\nC" has the sections "A\nB"
\* and "C", and the body block holds one section element per section in
\* that order.
C10_SectionsAreRunsOfTrimmedLines ==
    "akoma_ntoso" \in DOMAIN result =>
        LET body == result.akoma_ntoso.mainBody
        IN  /\ body = RunsOf(result.content, TRUE)
            /\ \A i \in 1..Len(body) :
                  /\ body[i] # << >>
                  /\ \A l \in Range(Split(body[i])) : Strip(l) = l /\ l # << >>
            /\ Strip(result.content) = << >> => body = << >>
            /\ result.content = SectionExample
                  => body = << <<"A","\n","B">>, <<"C">> >>

\* a text of two runs of lines, a line of them with whitespace around it,
\* was split into two sections
C10_Witness ==
    /\ "akoma_ntoso" \in DOMAIN result
    /\ Len(result.akoma_ntoso.mainBody) = 2
    /\ \E i \in 1..Len(Split(result.content)) :
          LET l == Split(result.content)[i]
          IN  Strip(l) # << >> /\ Strip(l) # l

\* C11: classify is never invoked with an empty text: whenever
\* DocumentClassifier.classify has been called in a process_document call,
\* the text it was given is not empty, also when the converter and the OCR
\* both gave an empty text.
C11_ClassifyNeverOnEmptyText ==
    Called("classifier.classify") => text # << >>

\* the two constituent classifiers of classify, by the call that runs them
CLASSIFIER_STAGES == {"zero_shot", "_classify_with_tfidf"}

\* the exception the specification names for a failed constituent
ClassificationFailure(stage) ==
    IF stage = "zero_shot" THEN "ClassificationFailure(zero_shot)"
    ELSE "ClassificationFailure(_classify_with_tfidf)"

\* C12: when the zero-shot or the statistical classifier raises during
\* classify, the call ends with a ClassificationFailure that names the stage
\* that failed, process_document returns no result, the legal processor is
\* not invoked, and no classification made from the one surviving signal
\* exists.
C12_ClassifierFailurePropagated ==
    (pc = "raised" /\ calls # << >> /\ calls[Len(calls)] \in CLASSIFIER_STAGES) =>
        /\ error = ClassificationFailure(calls[Len(calls)])
        /\ result = Unbound
        /\ classification = Unbound
        /\ \A c \in LEGAL_CALLS : ~ Called(c)

(***************************************************************************)
(* The legal processor on document_data with keys missing                  *)
(***************************************************************************)
\* the dict {key: val}, or {} when the key is left out
KeyIf(present, key, val) == IF present THEN key :> val ELSE EmptyDict

\* the dict d with only the keys of S
Restrict(d, S) == [k \in S \cap DOMAIN d |-> d[k]]

\* file_info with any of its keys missing
FileInfoPartials ==
    { Restrict([path |-> "sample_documents/sample_1.pdf",
                type |-> APPLICATION_PDF, size |-> 2048], S) :
        S \in SUBSET {"path", "size"} }

\* a legal classification with any of the keys the legal processor reads
\* missing
ClassificationPartials ==
    { Restrict(c, S) :
        c \in { k \in ClassificationSamples : IsLegal(k) },
        S \in SUBSET {"primary_category", "all_categories"} }

\* metadata without entities, or with any of the entity categories missing
MetadataPartials ==
    {EmptyDict} \cup { [entities |-> Restrict(SomeEntities, S)] :
                          S \in SUBSET DOMAIN SomeEntities }

ContentPartials == {LegalSample, SectionExample}

\* document_data with any subset of the expected keys missing
PartialInputs ==
    { KeyIf(p[1], "file_info", fi) @@ KeyIf(p[2], "classification", cl)
        @@ KeyIf(p[3], "metadata", md) @@ KeyIf(p[4], "content", ct) :
        p \in [1..4 -> BOOLEAN], fi \in FileInfoPartials,
        cl \in ClassificationPartials, md \in MetadataPartials,
        ct \in ContentPartials }

InitPartial ==
    /\ pc = "extract_legal_metadata"
    /\ result \in PartialInputs
    /\ file = Unbound
    /\ file_type = Unbound
    /\ text = << >>
    /\ extracted = Unbound
    /\ metadata = Unbound
    /\ zero_shot = Unbound
    /\ tfidf = Unbound
    /\ classification = Unbound
    /\ error = "none"
    /\ calls = << >>
    /\ engine = Unbound
    /\ classify_calls = << >>
    /\ sample_dir = Unbound
    /\ iter = 0
    /\ attempted = << >>
    /\ failed = {}

NextPartial ==
    \/ ExtractLegalMetadata
    \/ CreateAkomaNtoso

SpecPartial == InitPartial /\ [][NextPartial]_vars

\* the value at a path of keys is missing from document_data
Missing1(d, a) == a \notin DOMAIN d
Missing2(d, a, b) == Missing1(d, a) \/ b \notin DOMAIN d[a]
Missing3(d, a, b, c) == Missing2(d, a, b) \/ c \notin DOMAIN d[a][b]

\* C13: legal structuring is best-effort.  On a document_data with any
\* subset of the expected keys missing, extract_legal_metadata and
\* create_akoma_ntoso both run to their return and nothing is raised, and a
\* field whose value is absent from the input is empty or null: the source
\* URI is empty without file_info.path, the classification block is empty
\* without classification.all_categories, there is no section and no
\* reference without content, document_type is unknown without
\* classification.primary_category or without content, date is null without
\* the dates, parties is empty without the persons, and jurisdiction is
\* null when neither a content nor the locations are there to give one.
C13_StructuringBestEffort ==
    /\ pc # "raised" /\ error = "none"
    /\ pc \in {"extract_legal_metadata", "create_akoma_ntoso", "returned"}
    /\ pc = "extract_legal_metadata" => _extract_references(result) # {}
    /\ "legal_metadata" \in DOMAIN result =>
          LET lm == result.legal_metadata
          IN  /\ DOMAIN lm = {"document_type", "jurisdiction", "date",
                              "parties", "references"}
              /\ (Missing2(result, "classification", "primary_category")
                    \/ Missing1(result, "content"))
                    => lm.document_type = "unknown"
              /\ (Missing1(result, "content")
                    /\ Missing3(result, "metadata", "entities", "locations"))
                    => lm.jurisdiction = None
              /\ Missing3(result, "metadata", "entities", "dates")
                    => lm.date = None
              /\ Missing3(result, "metadata", "entities", "persons")
                    => lm.parties = << >>
              /\ Missing1(result, "content") => lm.references = << >>
    /\ "akoma_ntoso" \in DOMAIN result =>
          LET akn == result.akoma_ntoso
          IN  /\ Missing2(result, "file_info", "path") => akn.meta.FRBRuri = ""
              /\ Missing2(result, "classification", "all_categories")
                    => akn.meta.classification = << >>
              /\ Missing1(result, "content") => akn.mainBody = << >>

\* both calls returned on a document_data with no key at all
C13_Witness ==
    /\ pc = "returned"
    /\ DOMAIN result = {"legal_metadata", "akoma_ntoso"}
    /\ Called("legal_processor.extract_legal_metadata")
    /\ Called("legal_processor.create_akoma_ntoso")

(***************************************************************************)
(* The batch driver (src/example.py): process_all_samples and its          *)
(* process_document                                                        *)
(***************************************************************************)
MaxEntries == 3   \* entries of the sample directory

\* the exceptions a DocumentProcessor raises (construction or any stage of
\* its process_document)
PIPELINE_ERRORS == {"FileNotFoundError", "ValueError", "ConverterError",
                    "OcrError", "MetadataError", "ZeroShotError", "TfidfError"}

\* the exceptions of the printing and saving of the results
PRINT_ERRORS == {"OSError"}

\* except ValueError: only the unsupported type caught
IsValueError(e) == e = "ValueError"

\* except Exception: every exception above derives from Exception
IsException(e) == e \in PIPELINE_ERRORS \cup PRINT_ERRORS

\* the entries sample_dir.iterdir() lists: files and subdirectories
Listings ==
    UNION { [1..n -> [is_file : BOOLEAN]] : n \in 0..MaxEntries }

\* str(file_path) of the i-th entry
PathOf(i) == <<"sample_documents", i>>

InitBatch ==
    /\ pc = "process_all_samples"
    /\ sample_dir \in [exists : {TRUE}, entries : Listings]
                      \cup {[exists |-> FALSE, entries |-> << >>]}
    /\ iter = 0
    /\ attempted = << >>
    /\ failed = {}
    /\ error = "none"
    /\ file = Unbound
    /\ file_type = Unbound
    /\ text = << >>
    /\ extracted = Unbound
    /\ metadata = Unbound
    /\ zero_shot = Unbound
    /\ tfidf = Unbound
    /\ classification = Unbound
    /\ result = Unbound
    /\ calls = << >>
    /\ engine = Unbound
    /\ classify_calls = << >>

\* if not sample_dir.exists(): print(...); return
CheckSampleDir ==
    /\ pc = "process_all_samples"
    /\ pc' = IF sample_dir.exists THEN "iterdir" ELSE "batch_done"
    /\ UNCHANGED <<error, pipeline_vars, engine_vars, batch_vars>>

\* for file_path in sample_dir.iterdir(): the next entry, or the end of the
\* loop and of process_all_samples
NextEntry ==
    /\ pc = "iterdir"
    /\ IF iter < Len(sample_dir.entries)
       THEN iter' = iter + 1 /\ pc' = "is_file"
       ELSE iter' = iter /\ pc' = "batch_done"
    /\ UNCHANGED <<error, pipeline_vars, engine_vars, sample_dir, attempted, failed>>

\* if file_path.is_file():
IsFile ==
    /\ pc = "is_file"
    /\ pc' = IF sample_dir.entries[iter].is_file
             THEN "process_document" ELSE "iterdir"
    /\ UNCHANGED <<error, pipeline_vars, engine_vars, batch_vars>>

\* process_document(str(file_path)), the start of its try block:
\* processor = DocumentProcessor(); result = processor.process_document(file_path)
ProcessDocumentCall ==
    /\ pc = "process_document"
    /\ attempted' = Append(attempted, PathOf(iter))
    /\ \/ pc' = "print_results" /\ error' = error
       \/ \E e \in PIPELINE_ERRORS : pc' = "except" /\ error' = e
    /\ UNCHANGED <<pipeline_vars, engine_vars, sample_dir, iter, failed>>

\* the rest of the try block: the results are printed, the Akoma Ntoso XML
\* of a legal document is written to a file
PrintResults ==
    /\ pc = "print_results"
    /\ \/ pc' = "separator" /\ error' = error
       \/ \E e \in PRINT_ERRORS : pc' = "except" /\ error' = e
    /\ UNCHANGED <<pipeline_vars, engine_vars, batch_vars>>

\* except Exception as e: print(...).  An exception the clause does not
\* match leaves process_document and process_all_samples.
Except ==
    /\ pc = "except"
    /\ IF IsException(error)
       THEN /\ failed' = failed \cup {PathOf(iter)}
            /\ error' = "none"
            /\ pc' = "separator"
       ELSE /\ failed' = failed
            /\ error' = error
            /\ pc' = "batch_raised"
    /\ UNCHANGED <<pipeline_vars, engine_vars, sample_dir, iter, attempted>>

\* print("\n" + "=" * 50), then the next iteration
Separator ==
    /\ pc = "separator"
    /\ pc' = "iterdir"
    /\ UNCHANGED <<error, pipeline_vars, engine_vars, batch_vars>>

NextBatch ==
    \/ CheckSampleDir
    \/ NextEntry
    \/ IsFile
    \/ ProcessDocumentCall
    \/ PrintResults
    \/ Except
    \/ Separator

\* the driver is one synchronous call chain: a step that can run does run
SpecBatch == InitBatch /\ [][NextBatch]_vars /\ WF_vars(NextBatch)

\* the paths of the files of the listing, in listing order
FilesOf(dir) ==
    LET idx == SelectSeq([i \in 1..Len(dir.entries) |-> i],
                         LAMBDA i : dir.entries[i].is_file)
    IN  [k \in 1..Len(idx) |-> PathOf(idx[k])]

\* C14: the batch driver isolates per-document failures.  Processing is
\* attempted on the files of the sample directory only, never twice on the
\* same file, and whatever errors the earlier files raised the run comes to
\* its end with every file of the directory attempted exactly once.
C14_BatchIsolatesFailures ==
    /\ [](/\ Len(attempted) <= Len(FilesOf(sample_dir))
          /\ attempted = SubSeq(FilesOf(sample_dir), 1, Len(attempted)))
    /\ <>(pc = "batch_done" /\ attempted = FilesOf(sample_dir))

\* the run ended after a file whose processing raised and a later file
\* that was attempted all the same
C14_Witness ==
    /\ pc = "batch_done"
    /\ Len(attempted) >= 2
    /\ attempted[1] \in failed

(***************************************************************************)
(* One DocumentClassifier shared by several classify calls                 *)
(* (src/src/classifier.py).  A text is here the list of its tokens, as the *)
(* vectorizer's analyzer sees it (lower-cased words of two letters or      *)
(* more); the fitted state is the vocabulary and the tokens seen per class.*)
(***************************************************************************)
MaxCalls == 2   \* classify calls in flight on the one instance

\* training_data of _initialize_classifier, tokenised
training_data ==
    << [words |-> <<"this", "is", "legal", "contract", "between", "parties">>,
        label |-> "legal"],
       [words |-> <<"financial", "report", "for", "q1", "2024">>,
        label |-> "financial"],
       [words |-> <<"technical", "documentation", "for", "api">>,
        label |-> "technical"],
       [words |-> <<"medical", "report", "and", "diagnosis">>,
        label |-> "medical"],
       [words |-> <<"contract", "terms", "and", "conditions">>,
        label |-> "contract"],
       [words |-> <<"annual", "report", "2023">>, label |-> "report"],
       [words |-> <<"business", "correspondence">>, label |-> "correspondence"] >>

\* TfidfVectorizer(max_features=5000) and MultinomialNB() before any fit
UnfittedVectorizer == [vocabulary |-> {}, fits |-> 0]
UnfittedClassifier == [classes_ |-> {}, feature_count |-> << >>, fits |-> 0]

\* vectorizer.fit_transform(X): the state of the vectorizer after it
fit_transform(v, X) ==
    [vocabulary |-> UNION { Range(X[i]) : i \in 1..Len(X) },
     fits       |-> v.fits + 1]

\* vectorizer.transform([words]): the features of a text, its tokens that
\* are in the vocabulary
transform(v, words) == Range(words) \cap v.vocabulary

\* fit_transform in the place of transform: the vectorizer refitted on the
\* text that is classified
VectorizerAfterFitTransform(v, words) == fit_transform(v, <<words>>)

\* the state of the vectorizer after vectorizer.transform: as before
VectorizerAfterTransform(v, words) == v

\* classifier.fit(X_tfidf, y): the state of the classifier after it
fit(clf, v, X, y) ==
    LET classes == { y[i] : i \in 1..Len(y) }
    IN  [classes_      |-> classes,
         feature_count |-> [c \in classes |->
                              UNION { transform(v, X[i]) :
                                        i \in { j \in 1..Len(y) : y[j] = c } }],
         fits          |-> clf.fits + 1]

\* classifier.predict_proba(X)[0] zipped with classifier.classes_: a class
\* scores higher the more features of the text it has seen
predict_proba(clf, features) ==
    [c \in clf.classes_ |-> 1 + Cardinality(features \cap clf.feature_count[c])]

\* self.zero_shot(text, self.categories): the pretrained model's answer, a
\* function of the text and the candidate labels alone
zero_shot_pipeline(words, candidate_labels) ==
    ZeroShotAnswer([l \in Range(candidate_labels) |->
                      IF l \in Range(words) THEN 3 ELSE 1])

\* the texts that are classified
CLASSIFY_TEXTS == { <<"legal", "contract">>, <<"annual", "report">>,
                    <<"hello">> }

\* a classify call that has not started
IdleCall ==
    [pc |-> "idle", text |-> << >>, zero_shot_results |-> Unbound,
     tfidf_results |-> Unbound, result |-> Unbound]

\* DocumentClassifier() is entered
InitEngine ==
    /\ engine = [pc |-> "__init__", vectorizer |-> Unbound,
                 classifier |-> Unbound, categories |-> << >>]
    /\ classify_calls = [k \in 1..MaxCalls |-> IdleCall]
    /\ pc = "start"
    /\ error = "none"
    /\ file = Unbound
    /\ file_type = Unbound
    /\ text = << >>
    /\ extracted = Unbound
    /\ metadata = Unbound
    /\ zero_shot = Unbound
    /\ tfidf = Unbound
    /\ classification = Unbound
    /\ result = Unbound
    /\ calls = << >>
    /\ sample_dir = Unbound
    /\ iter = 0
    /\ attempted = << >>
    /\ failed = {}

\* __init__ up to the call of _initialize_classifier
Construct ==
    /\ engine.pc = "__init__"
    /\ engine' = [pc |-> "_initialize_classifier",
                  vectorizer |-> UnfittedVectorizer,
                  classifier |-> UnfittedClassifier,
                  categories |-> categories]
    /\ UNCHANGED <<pc, error, pipeline_vars, batch_vars, classify_calls>>

\* _initialize_classifier: X_tfidf = self.vectorizer.fit_transform(X);
\* self.classifier.fit(X_tfidf, y); then __init__ returns
InitializeClassifier ==
    /\ engine.pc = "_initialize_classifier"
    /\ LET X == [i \in 1..Len(training_data) |-> training_data[i].words]
           y == [i \in 1..Len(training_data) |-> training_data[i].label]
           v == fit_transform(engine.vectorizer, X)
       IN  engine' = [engine EXCEPT !.pc = "constructed",
                                    !.vectorizer = v,
                                    !.classifier = fit(engine.classifier, v, X, y)]
    /\ UNCHANGED <<pc, error, pipeline_vars, batch_vars, classify_calls>>

\* classify(text) is called on the constructed instance
ClassifyStart(k) ==
    /\ engine.pc = "constructed"
    /\ classify_calls[k].pc = "idle"
    /\ \E words \in CLASSIFY_TEXTS :
          classify_calls' = [classify_calls EXCEPT
                                ![k] = [IdleCall EXCEPT !.pc = "zero_shot",
                                                        !.text = words]]
    /\ UNCHANGED <<pc, error, pipeline_vars, batch_vars, engine>>

\* zero_shot_results = self.zero_shot(text, self.categories)
ClassifyZeroShot(k) ==
    /\ classify_calls[k].pc = "zero_shot"
    /\ classify_calls' = [classify_calls EXCEPT
          ![k].zero_shot_results =
              zero_shot_pipeline(classify_calls[k].text, engine.categories),
          ![k].pc = "_classify_with_tfidf"]
    /\ UNCHANGED <<pc, error, pipeline_vars, batch_vars, engine>>

\* tfidf_results = self._classify_with_tfidf(text):
\* X = self.vectorizer.transform([text]); self.classifier.predict_proba(X)[0]
ClassifyTfidf(k) ==
    /\ classify_calls[k].pc = "_classify_with_tfidf"
    /\ LET v == VectorizerAfterTransform(engine.vectorizer, classify_calls[k].text)
           X == transform(v, classify_calls[k].text)
       IN  /\ engine' = [engine EXCEPT !.vectorizer = v]
           /\ classify_calls' = [classify_calls EXCEPT
                 ![k].tfidf_results = predict_proba(engine.classifier, X),
                 ![k].pc = "_combine_results"]
    /\ UNCHANGED <<pc, error, pipeline_vars, batch_vars>>

\* combined_results = self._combine_results(...) and the return of classify
ClassifyCombine(k) ==
    /\ classify_calls[k].pc = "_combine_results"
    /\ classify_calls' = [classify_calls EXCEPT
          ![k].result = classify_result(classify_calls[k].zero_shot_results,
                                        classify_calls[k].tfidf_results),
          ![k].pc = "done"]
    /\ UNCHANGED <<pc, error, pipeline_vars, batch_vars, engine>>

\* the caller drops the result; the next classify call can start
ClassifyForget(k) ==
    /\ classify_calls[k].pc = "done"
    /\ classify_calls' = [classify_calls EXCEPT ![k] = IdleCall]
    /\ UNCHANGED <<pc, error, pipeline_vars, batch_vars, engine>>

NextEngine ==
    \/ Construct
    \/ InitializeClassifier
    \/ \E k \in 1..MaxCalls : ClassifyStart(k)
    \/ \E k \in 1..MaxCalls : ClassifyZeroShot(k)
    \/ \E k \in 1..MaxCalls : ClassifyTfidf(k)
    \/ \E k \in 1..MaxCalls : ClassifyCombine(k)
    \/ \E k \in 1..MaxCalls : ClassifyForget(k)

SpecEngine == InitEngine /\ [][NextEngine]_vars

\* the vectorizer and the classifier as one fit on training_data leaves them
TrainedVectorizer ==
    fit_transform(UnfittedVectorizer,
                  [i \in 1..Len(training_data) |-> training_data[i].words])

TrainedClassifier ==
    fit(UnfittedClassifier, TrainedVectorizer,
        [i \in 1..Len(training_data) |-> training_data[i].words],
        [i \in 1..Len(training_data) |-> training_data[i].label])

\* what classify returns for a text on a freshly constructed instance on
\* which no other call runs
ClassifyAlone(words) ==
    classify_result(
        zero_shot_pipeline(words, categories),
        predict_proba(TrainedClassifier, transform(TrainedVectorizer, words)))

\* C15: the statistical model is fitted exactly once, during construction,
\* and never again: no classify call starts before the instance is
\* constructed, from then on the vectorizer and the classifier are the ones
\* the single fit on the training data left (fit count 1) and the category
\* vocabulary is the declared one, whatever classify calls run or have run,
\* in any interleaving; and every classify call returns what it would
\* return on a fresh instance with no other call.
C15_ModelFittedOnce ==
    /\ engine.pc # "constructed" =>
          \A k \in 1..MaxCalls : classify_calls[k] = IdleCall
    /\ engine.pc = "_initialize_classifier" =>
          engine.vectorizer.fits = 0 /\ engine.classifier.fits = 0
    /\ engine.pc = "constructed" =>
          /\ engine.vectorizer = TrainedVectorizer
          /\ engine.classifier = TrainedClassifier
          /\ engine.vectorizer.fits = 1 /\ engine.classifier.fits = 1
          /\ engine.categories = categories
    /\ \A k \in 1..MaxCalls :
          classify_calls[k].pc = "done" =>
              classify_calls[k].result = ClassifyAlone(classify_calls[k].text)

\* a classify call returned while another call, on another text, had
\* already been through the statistical model
C15_Witness ==
    \E k, j \in 1..MaxCalls :
        /\ k # j
        /\ classify_calls[k].pc = "done"
        /\ classify_calls[j].pc \in {"_combine_results", "done"}
        /\ classify_calls[k].text # classify_calls[j].text
        /\ classify_calls[k].result.primary_category
              # ClassifyAlone(classify_calls[j].text).primary_category

(***************************************************************************)
(* process_document called again on the same DocumentProcessor             *)
(***************************************************************************)
\* A later call of process_document, after the last one returned or raised.
\* file_path is the new argument; every other name of the function is a
\* local of the new frame, unassigned at entry, and process_document
\* assigns no attribute of self.
NewCall ==
    /\ pc \in {"returned", "raised"}
    /\ pc' = "start"
    /\ file' \in Files
    /\ file_type' = Unbound
    /\ text' = << >>
    /\ extracted' = Unbound
    /\ metadata' = Unbound
    /\ zero_shot' = Unbound
    /\ tfidf' = Unbound
    /\ classification' = Unbound
    /\ result' = Unbound
    /\ error' = "none"
    /\ calls' = << >>
    /\ UNCHANGED <<batch_vars, engine_vars>>

NextCalls ==
    \/ Next
    \/ NewCall

SpecCalls == Init /\ [][NextCalls]_vars

\* the stages of process_document, in the order the claim gives them
STAGES == <<"convert_to_text", "ocr_processor.process_image",
            "metadata_extractor.extract", "classifier.classify",
            "legal_processor.extract_legal_metadata",
            "legal_processor.create_akoma_ntoso">>

\* the stages invoked so far in the running call, in the order of their
\* invocation
StagesInvoked == SelectSeq(calls, LAMBDA c : c \in Range(STAGES))

\* the first n stages, with or without the optional OCR fallback
StagePrefixes(n) ==
    { SubSeq(STAGES, 1, n),
      SelectSeq(SubSeq(STAGES, 1, n),
                LAMBDA c : c # "ocr_processor.process_image") }

\* C16: within one process_document call the stages run in the order text
\* extraction, optional OCR fallback, entity extraction, classification and,
\* for a legal document only, extract_legal_metadata then
\* create_akoma_ntoso, each at most once; a call that returns has run them
\* all; once a stage has raised no stage is invoked again in that call, the
\* failed stage included; and a later call starts with nothing of the
\* earlier call: every local unassigned, no stage invoked.
C16_StagesInOrderOnce ==
    /\ [](/\ \E n \in 0..Len(STAGES) : StagesInvoked \in StagePrefixes(n)
          /\ (\E c \in LEGAL_CALLS : Called(c)) => IsLegal(classification)
          /\ pc = "returned" =>
                StagesInvoked \in StagePrefixes(IF IsLegal(classification)
                                                THEN 6 ELSE 4))
    /\ [][/\ pc = "raised" => pc' = "start"
          /\ pc' # "start" =>
                /\ Len(calls') >= Len(calls)
                /\ SubSeq(calls', 1, Len(calls)) = calls
          /\ pc' = "start" =>
                /\ calls' = << >> /\ error' = "none" /\ text' = << >>
                /\ \A v \in {file_type', extracted', metadata', zero_shot',
                             tfidf', classification', result'} : v = Unbound
         ]_vars

\* the OCR fallback ran, and the call ended when the zero-shot classifier
\* raised: nothing was invoked after it
C16_Witness ==
    /\ pc = "raised"
    /\ error = "ZeroShotError"
    /\ StagesInvoked = SubSeq(STAGES, 1, 4)
    /\ calls[Len(calls)] = "zero_shot"

(***************************************************************************)
(* From _combine_results to the XML: classify fuses any pair of            *)
(* constituent answers, process_document structures the legal result       *)
(***************************************************************************)
MaxFusionLabels == 2   \* labels in a constituent answer

\* labels a constituent may return: of the vocabulary and outside it
FUSION_LABELS == {"legal", "report", "other"}

FusionZeroShotInputs ==
    { ZeroShotAnswer(m) : m \in ScoreMaps(FUSION_LABELS, MaxFusionLabels) }

FusionTfidfInputs == ScoreMaps({"legal", "contract"}, MaxFusionLabels - 1)

\* process_document has come to the last statement of classify, on a
\* readable text file
InitFusion ==
    /\ pc = "_combine_results"
    /\ zero_shot \in FusionZeroShotInputs
    /\ tfidf \in FusionTfidfInputs
    /\ file = [exists |-> TRUE, path |-> "sample_documents/sample_2",
               mime |-> Mime("text", "plain"), size |-> 2048]
    /\ file_type = Mime("text", "plain")
    /\ text = LegalSample
    /\ extracted = [val |-> LegalSample]
    /\ metadata \in MetadataSamples
    /\ classification = Unbound
    /\ result = Unbound
    /\ error = "none"
    /\ calls = <<"magic.from_file", "convert_to_text",
                 "metadata_extractor.extract", "classifier.classify",
                 "zero_shot", "_classify_with_tfidf">>
    /\ engine = Unbound
    /\ classify_calls = << >>
    /\ sample_dir = Unbound
    /\ iter = 0
    /\ attempted = << >>
    /\ failed = {}

NextFusion ==
    \/ CombineResults
    \/ BuildResult
    \/ ExtractLegalMetadata
    \/ CreateAkomaNtoso

SpecFusion == InitFusion /\ [][NextFusion]_vars

\* C17: all_categories has exactly the seven vocabulary labels as keys,
\* whatever labels the two constituent classifiers returned, in
\* non-increasing order of combined score; and the classification block of
\* the generated XML holds one keyword per entry of that mapping, in the
\* same order, with the label as its text and the score, as a string, as
\* its confidence attribute.
C17_AllCategoriesAndKeywords ==
    /\ classification # Unbound =>
          LET all == classification.all_categories
          IN  /\ Len(all) = 7
              /\ { all[i][1] : i \in 1..Len(all) } = Range(categories)
              /\ \A i \in 1..(Len(all) - 1) : all[i][2] >= all[i + 1][2]
    /\ (result # Unbound /\ "akoma_ntoso" \in DOMAIN result) =>
          LET all == result.classification.all_categories
              kw  == result.akoma_ntoso.meta.classification
          IN  /\ all = classification.all_categories
              /\ Len(kw) = Len(all)
              /\ \A i \in 1..Len(all) :
                    /\ kw[i].keyword = all[i][1]
                    /\ kw[i].confidence = Str(all[i][2])

\* the XML of a legal document whose zero-shot answer held a label outside
\* the vocabulary and lacked most of the vocabulary, with scores that differ
C17_Witness ==
    /\ pc = "returned"
    /\ "akoma_ntoso" \in DOMAIN result
    /\ "other" \in Range(zero_shot.labels)
    /\ Len(zero_shot.labels) < 7
    /\ LET kw == result.akoma_ntoso.meta.classification
       IN  kw[1].confidence # kw[7].confidence

====
